---------------------------- MODULE Spec2Model ----------------------------
(***************************************************************************)
(* PDFManager: the PDFSplitter (src/src/splitter.py) and the handlers of   *)
(* the MainWindow that drive it (src/src/app.py).                          *)
(***************************************************************************)
EXTENDS Integers, Sequences, FiniteSets, TLC

(***************************************************************************)
(* Python float arithmetic of splitter.py line 91.  A float is an IEEE-754 *)
(* double: a 53 bit mantissa m and an exponent e, of value m * 2^e.  The   *)
(* mantissa does not fit a TLC integer, so it is a little-endian sequence  *)
(* of digits in base 2^15.                                                 *)
(***************************************************************************)
DigitBits == 15

MantissaBits == 53

Base == 2 ^ DigitBits

Pow2(j) == 2 ^ j

RECURSIVE BigNorm(_)
BigNorm(a) ==
    IF a = <<>> THEN <<>>
    ELSE IF a[Len(a)] = 0 THEN BigNorm(SubSeq(a, 1, Len(a) - 1))
    ELSE a

BigFromInt(n) ==
    BigNorm(<<n % Base, (n \div Base) % Base, n \div (Base * Base)>>)

RECURSIVE BigToInt(_)
BigToInt(a) ==
    IF a = <<>> THEN 0 ELSE a[1] + Base * BigToInt(Tail(a))

RECURSIVE MulCarry(_, _, _)
MulCarry(a, s, carry) ==
    IF a = <<>> THEN (IF carry = 0 THEN <<>> ELSE <<carry>>)
    ELSE LET p == a[1] * s + carry
         IN  <<p % Base>> \o MulCarry(Tail(a), s, p \div Base)

\* a * s, for 0 <= s < Base
BigMulSmall(a, s) == BigNorm(MulCarry(a, s, 0))

\* long division by d, 0 < d <= Base, from the most significant digit down:
\* the quotient digits (little-endian) and the remainder
RECURSIVE DivRem(_, _)
DivRem(a, d) ==
    IF a = <<>> THEN [q |-> <<>>, r |-> 0]
    ELSE LET hi  == DivRem(Tail(a), d)
             cur == hi.r * Base + a[1]
         IN  [q |-> <<cur \div d>> \o hi.q, r |-> cur % d]

BigDivSmall(a, d) ==
    LET x == DivRem(a, d) IN [q |-> BigNorm(x.q), r |-> x.r]

RECURSIVE AddCarry(_, _)
AddCarry(a, c) ==
    IF c = 0 THEN a
    ELSE IF a = <<>> THEN <<c>>
    ELSE LET t == a[1] + c
         IN  <<t % Base>> \o AddCarry(Tail(a), t \div Base)

BigIsOdd(a) == a # <<>> /\ a[1] % 2 = 1

RECURSIVE IntBitLen(_)
IntBitLen(n) == IF n = 0 THEN 0 ELSE 1 + IntBitLen(n \div 2)

BigBitLen(a) ==
    IF a = <<>> THEN 0 ELSE (Len(a) - 1) * DigitBits + IntBitLen(a[Len(a)])

RECURSIVE BigShl(_, _)
BigShl(a, bits) ==
    IF bits = 0 \/ a = <<>> THEN a
    ELSE IF bits >= DigitBits THEN BigShl(<<0>> \o a, bits - DigitBits)
    ELSE BigMulSmall(a, Pow2(bits))

RECURSIVE BigShr(_, _)
BigShr(a, bits) ==
    IF bits = 0 \/ a = <<>> THEN a
    ELSE IF bits >= DigitBits THEN BigShr(Tail(a), bits - DigitBits)
    ELSE BigDivSmall(a, Pow2(bits)).q

\* a / d rounded to the nearest integer, ties to even (the IEEE default)
RoundDiv(a, d) ==
    LET x == BigDivSmall(a, d)
    IN  IF 2 * x.r > d \/ (2 * x.r = d /\ BigIsOdd(x.q))
        THEN AddCarry(x.q, 1)
        ELSE x.q

\* floor(log2(n / d)) for n, d > 0
RECURSIVE Log2Up(_, _)
Log2Up(n, d) == IF 2 * d > n THEN 0 ELSE 1 + Log2Up(n, 2 * d)

RECURSIVE Log2Down(_, _)
Log2Down(n, d) == IF n >= d THEN 0 ELSE Log2Down(2 * n, d) - 1

FloorLog2(n, d) == IF n >= d THEN Log2Up(n, d) ELSE Log2Down(n, d)

\* int / int (true division): the double nearest to n / d
FloatDiv(n, d) ==
    LET sh == (MantissaBits - 1) - FloorLog2(n, d)
    IN  [m |-> RoundDiv(BigShl(BigFromInt(n), sh), d), e |-> -sh]

\* float * int for a small int c: the double nearest to the exact product
FloatMul(x, c) ==
    LET p    == BigMulSmall(x.m, c)
        over == BigBitLen(p) - MantissaBits
    IN  IF over <= 0 THEN [m |-> p, e |-> x.e]
        ELSE [m |-> RoundDiv(p, Pow2(over)), e |-> x.e + over]

\* int(float): truncation toward zero of a float >= 0
FloatToInt(x) ==
    IF x.e >= 0 THEN BigToInt(BigShl(x.m, x.e))
    ELSE BigToInt(BigShr(x.m, -x.e))


\* the bug of dividing with // : the quotient is floored before it is scaled
Progress_FloorDivision(start_page, pages_per_pdf, total_pages) ==
    ((start_page + pages_per_pdf) \div total_pages) * 100

\* the value sent with the progress signal for the chunk starting at start_page
Progress(start_page, pages_per_pdf, total_pages) ==
    FloatToInt(FloatMul(FloatDiv(start_page + pages_per_pdf, total_pages), 100))

(***************************************************************************)
(* The file system.  A path is described by what the file system holds     *)
(* there; "" is the path of a fresh PDFSplitter.  MaxPages bounds the page *)
(* count of the PDF documents, MaxPerPdf the value of the pages spin box.  *)
(***************************************************************************)
MaxPages == 3

MaxPerPdf == 2

NoPath == [kind |-> "empty", pages |-> 0]

MissingPath == [kind |-> "missing", pages |-> 0]

NotPdfFile == [kind |-> "notpdf", pages |-> 0]

PdfFile(T) == [kind |-> "pdf", pages |-> T]

ExistingDir == [kind |-> "dir", pages |-> 0]

InputPaths == {NoPath, MissingPath, NotPdfFile} \cup {PdfFile(T) : T \in 0..MaxPages}

OutputPaths == {NoPath, MissingPath, ExistingDir}

isfile(path) == path.kind \in {"notpdf", "pdf"}

isdir(path) == path.kind = "dir"

\* QLineEdit.setText / text: the code only reads whether the text is empty
TextOf(path) == IF path = NoPath THEN "" ELSE "text"

Min(a, b) == IF a <= b THEN a ELSE b

(***************************************************************************)
(* A click waiting for the main window is dispatched inside the setValue   *)
(* of a progress dialog that Cancel has hidden, so a handler, splitPDF     *)
(* too, can run before the splitPDF call in progress has returned.         *)
(* MaxWaiting bounds how many events wait for the main window when Cancel  *)
(* is pressed: what the user managed to click while one chunk, or one      *)
(* archive entry, was being written.  waiting is how many of them can      *)
(* still be there.                                                         *)
(***************************************************************************)
MaxWaiting == 1

(***************************************************************************)
(* MaxRuns bounds how many times split_pdf is called in one session; runs  *)
(* counts the calls.                                                       *)
(***************************************************************************)
MaxRuns == 2

(***************************************************************************)
(* progress_bar and progress_dialog are what wasCanceled() of the dialog   *)
(* of that name answers.  progress is the value update_progress was sent   *)
(* and dialog the progress dialog it called setValue on, named by the      *)
(* number of the run that made it.  pc is the place of the splitPDF call in          *)
(* progress, stack the calls that wait for it to return.  files is what    *)
(* is left of the list os.walk gave zip_pdf, archive the entries written.  *)
(* events, written, stale and cancelled_at describe the run in progress:   *)
(* the values sent with progress_signal, the files written, whether the    *)
(* cancel flag was set when the run started and has not been reset since,  *)
(* and the chunk at which Cancel was first pressed (0: not pressed).       *)
(***************************************************************************)
VARIABLES
    input_pdf_path, output_directory_path, pages_per_pdf,
    compress_zip, sub_pdf_num, cancel,
    script_input, output_directory, compres_zip_checkBox,
    progress_bar,
    directory,
    pc, total_pages, start_page, range_step, progress, dialog,
    message, archive, zip_maximum, files, file_name, progress_dialog,
    waiting, stack, runs,
    events, written, stale, cancelled_at

splitterVars == <<input_pdf_path, output_directory_path, pages_per_pdf,
                  compress_zip, sub_pdf_num, cancel>>

widgetVars == <<script_input, output_directory, compres_zip_checkBox>>

loopVars == <<total_pages, start_page, range_step, progress, dialog>>

zipVars == <<archive, zip_maximum, files, file_name, progress_dialog>>

runVars == <<events, written, stale, cancelled_at>>

vars == <<splitterVars, widgetVars, progress_bar, directory, pc, loopVars,
          message, zipVars, waiting, stack, runs, runVars>>

\* the event loop dispatches an event of the main window: at rest, or, inside
\* the setValue of a progress dialog that Cancel has hidden, one of the events
\* that were waiting
Dispatching ==
    /\ \/ pc = "idle"
       \/ pc \in {"events", "zipevents"} /\ waiting > 0
    /\ waiting' = IF pc = "idle" THEN waiting ELSE waiting - 1

\* the locals of the splitPDF call that is running, and what is known of its run
Frame ==
    [pc |-> pc, total_pages |-> total_pages, start_page |-> start_page,
     range_step |-> range_step, progress |-> progress, dialog |-> dialog,
     archive |-> archive,
     zip_maximum |-> zip_maximum, files |-> files, file_name |-> file_name,
     progress_dialog |-> progress_dialog, waiting |-> waiting - 1,
     events |-> events, written |-> written, stale |-> stale,
     cancelled_at |-> cancelled_at]

(***************************************************************************)
(* PDFSplitter                                                             *)
(***************************************************************************)

\* the bug of a reset that forgets the cancel flag
defaultAttributes_KeepsCancel ==
    /\ input_pdf_path' = NoPath
    /\ output_directory_path' = NoPath
    /\ pages_per_pdf' = 1
    /\ compress_zip' = FALSE
    /\ sub_pdf_num' = 0
    /\ cancel' = cancel

\* defaultAttributes: the six attributes after a reset
defaultAttributes ==
    /\ input_pdf_path' = NoPath
    /\ output_directory_path' = NoPath
    /\ pages_per_pdf' = 1
    /\ compress_zip' = FALSE
    /\ sub_pdf_num' = 0
    /\ cancel' = FALSE

\* check_pdf: PdfReader(pdf) opens the path itself; only PdfReadError is caught
check_pdf(pdf) ==
    CASE pdf.kind = "pdf" -> "True"
      [] pdf.kind = "notpdf" -> "False"
      [] OTHER -> "FileNotFoundError"


\* the bug of clipping the range at total_pages - 1: the last page is lost
ChunkPages_DropsLastPage(start, per_pdf, total) ==
    [i \in 1..(Min(start + per_pdf, total - 1) - start) |-> start + i - 1]

\* the pages range(start_page, min(start_page + pages_per_pdf, total_pages))
ChunkPages(start, per_pdf, total) ==
    [i \in 1..(Min(start + per_pdf, total) - start) |-> start + i - 1]


\* the change of clearing the cancel flag when a run starts
SplitBegin_ClearsCancel ==
    /\ total_pages' = input_pdf_path.pages
    /\ sub_pdf_num' = 1
    /\ cancel' = FALSE
    /\ start_page' = 0
    /\ range_step' = pages_per_pdf
    /\ progress' = 0
    /\ dialog' = 0
    /\ pc' = IF 0 < input_pdf_path.pages THEN "loop" ELSE "returned"
    /\ events' = <<>>
    /\ written' = <<>>
    /\ stale' = cancel
    /\ cancelled_at' = 0

\* split_pdf up to the loop: open, read, total_pages, sub_pdf_num = 1, and the
\* range of the loop, whose step is pages_per_pdf as it is now; the cancel flag
\* is left as it is
SplitBegin ==
    /\ total_pages' = input_pdf_path.pages
    /\ sub_pdf_num' = 1
    /\ cancel' = cancel
    /\ start_page' = 0
    /\ range_step' = pages_per_pdf
    /\ progress' = 0
    /\ dialog' = 0
    /\ pc' = IF 0 < input_pdf_path.pages THEN "loop" ELSE "returned"
    /\ events' = <<>>
    /\ written' = <<>>
    /\ stale' = cancel
    /\ cancelled_at' = 0

\* one chunk: the writer's pages, the file name, the counter, the write.
\* A page is named by its number in its document; a file is its page list.
\* open() fails when the output directory is not there (it can have been
\* changed since splitPDF tested it); with the path "" the file is /n.pdf,
\* which the file system root takes or refuses.
WriteChunk ==
    /\ pc = "loop"
    /\ sub_pdf_num' = sub_pdf_num + 1
    /\ LET pages == ChunkPages(start_page, pages_per_pdf, total_pages)
           name  == sub_pdf_num
           done  == /\ written' = Append(written, [name |-> name, pages |-> pages])
                    /\ pc' = "written"
                    /\ message' = message
           fails == /\ written' = written
                    /\ pc' = "raised"
                    /\ message' = "OSError"
       IN  CASE isdir(output_directory_path) ->
                    /\ directory' = (name :> pages) @@ directory
                    /\ done
             [] output_directory_path = NoPath ->
                    /\ directory' = directory
                    /\ done \/ fails
             [] OTHER ->
                    /\ directory' = directory
                    /\ fails
    /\ UNCHANGED <<input_pdf_path, output_directory_path, pages_per_pdf,
                   compress_zip, cancel, widgetVars, progress_bar, loopVars,
                   zipVars, waiting, stack, runs, events, stale, cancelled_at>>

\* cancel_progress, the receiver of cancel_signal
cancel_progress == cancel' = TRUE

\* progress_signal.send and its receiver update_progress up to the end of
\* setValue, which runs the event loop: the dialog is modal, so the user can
\* only press its Cancel; that hides the dialog, and the events still waiting
\* for the main window are dispatched before setValue returns.  Without a
\* Cancel, setValue returns and update_progress tests wasCanceled at once;
\* setValue ends with reset(), which clears the cancelled flag of its
\* dialog, when the value is the dialog's maximum, 100.
SendProgress ==
    /\ pc = "written"
    /\ LET value == Progress(start_page, pages_per_pdf, total_pages)
       IN  /\ events' = Append(events, value)
           /\ progress' = value
           /\ dialog' = runs
           /\ \E Cancel \in BOOLEAN :
                 IF Cancel
                 THEN /\ progress_bar' = TRUE
                      /\ waiting' = MaxWaiting
                      /\ cancel' = cancel
                      /\ cancelled_at' = IF cancelled_at = 0
                                         THEN Len(written) ELSE cancelled_at
                      /\ pc' = "events"
                 ELSE /\ progress_bar' = (progress_bar /\ value # 100)
                      /\ waiting' = waiting
                      /\ IF progress_bar /\ value # 100
                         THEN cancel_progress ELSE cancel' = cancel
                      /\ cancelled_at' = cancelled_at
                      /\ pc' = "signalled"
    /\ UNCHANGED <<input_pdf_path, output_directory_path, pages_per_pdf,
                   compress_zip, sub_pdf_num, widgetVars, directory,
                   total_pages, start_page, range_step, message, zipVars,
                   stack, runs, written, stale>>

\* update_progress from the end of a setValue that has dispatched events:
\* reset() when the value is the maximum, on the dialog setValue was called
\* on, then wasCanceled of the dialog self.progress_bar names now, which is
\* another one when splitPDF has run in between, and cancel_signal.send
update_progress ==
    /\ pc = "events"
    /\ LET wasCanceled == progress_bar /\ ~(progress = 100 /\ dialog = runs)
       IN  /\ progress_bar' = wasCanceled
           /\ IF wasCanceled THEN cancel_progress ELSE cancel' = cancel
    /\ pc' = "signalled"
    /\ UNCHANGED <<input_pdf_path, output_directory_path, pages_per_pdf,
                   compress_zip, sub_pdf_num, widgetVars, directory, loopVars,
                   message, zipVars, waiting, stack, runs, runVars>>


\* the cancel test that ends the loop body, and the step of the range
CheckCancel ==
    /\ pc = "signalled"
    /\ IF cancel
       THEN /\ pc' = "returned"
            /\ start_page' = start_page
       ELSE /\ start_page' = start_page + range_step
            /\ pc' = IF start_page + range_step < total_pages
                     THEN "loop" ELSE "returned"
    /\ UNCHANGED <<splitterVars, widgetVars, progress_bar, directory,
                   total_pages, range_step, progress, dialog, message, zipVars,
                   waiting, stack, runs, runVars>>

\* cancel_signal.send() from outside a run
CancelSignalSend ==
    /\ pc = "idle"
    /\ cancel_progress
    /\ UNCHANGED <<input_pdf_path, output_directory_path, pages_per_pdf,
                   compress_zip, sub_pdf_num, widgetVars, progress_bar,
                   directory, pc, loopVars, message, zipVars, waiting, stack,
                   runs, runVars>>

(***************************************************************************)
(* MainWindow                                                              *)
(***************************************************************************)
\* file_name[0] is "" when the dialog is dismissed
openFileDialog ==
    /\ Dispatching
    /\ \E name \in InputPaths :
          /\ script_input' = TextOf(name)
          /\ input_pdf_path' = name
    /\ UNCHANGED <<output_directory_path, pages_per_pdf, compress_zip,
                   sub_pdf_num, cancel, output_directory, compres_zip_checkBox,
                   progress_bar, directory, pc, loopVars, message, zipVars,
                   stack, runs, runVars>>

openDirectoryDialog ==
    /\ Dispatching
    /\ \E directory_name \in OutputPaths :
          /\ output_directory' = IF directory_name # NoPath
                                 THEN TextOf(directory_name) ELSE output_directory
          /\ output_directory_path' = directory_name
    /\ UNCHANGED <<input_pdf_path, pages_per_pdf, compress_zip, sub_pdf_num,
                   cancel, script_input, compres_zip_checkBox, progress_bar,
                   directory, pc, loopVars, message, zipVars, stack, runs, runVars>>

ValueChangePages ==
    /\ Dispatching
    /\ \E pages_num \in 1..MaxPerPdf : pages_per_pdf' = pages_num
    /\ UNCHANGED <<input_pdf_path, output_directory_path, compress_zip,
                   sub_pdf_num, cancel, widgetVars, progress_bar, directory,
                   pc, loopVars, message, zipVars, stack, runs, runVars>>

\* the user ticks or unticks the compress check box
ToggleCheckBox ==
    /\ Dispatching
    /\ compres_zip_checkBox' = ~compres_zip_checkBox
    /\ UNCHANGED <<splitterVars, script_input, output_directory, progress_bar,
                   directory, pc, loopVars, message, zipVars, stack, runs, runVars>>

\* the user types in a line edit: no signal of the line edits is connected
EditScriptInput ==
    /\ Dispatching
    /\ \E text \in {"", "text"} : script_input' = text
    /\ UNCHANGED <<splitterVars, output_directory, compres_zip_checkBox,
                   progress_bar, directory, pc, loopVars, message, zipVars,
                   stack, runs, runVars>>

EditOutputDirectory ==
    /\ Dispatching
    /\ \E text \in {"", "text"} : output_directory' = text
    /\ UNCHANGED <<splitterVars, script_input, compres_zip_checkBox,
                   progress_bar, directory, pc, loopVars, message, zipVars,
                   stack, runs, runVars>>

\* clearFields; a cancel flag left over from before a run is no longer
\* pending for the run in progress, nor for the runs it has suspended
clearFields ==
    /\ Dispatching
    /\ script_input' = ""
    /\ output_directory' = ""
    /\ compres_zip_checkBox' = FALSE
    /\ defaultAttributes
    /\ stale' = FALSE
    /\ stack' = [i \in DOMAIN stack |-> [stack[i] EXCEPT !.stale = FALSE]]
    /\ UNCHANGED <<progress_bar, directory, pc, loopVars, message, zipVars,
                   runs, events, written, cancelled_at>>

\* the branch of splitPDF that is taken once check_pdf has returned True:
\* "split", or the text of the message box
Preflight(pdf_path, dir_path, input_text, dir_text) ==
    CASE isfile(pdf_path) /\ isdir(dir_path) -> "split"
      [] OTHER ->
         IF input_text = "" THEN "No file selected."
         ELSE IF dir_text = "" THEN "No output directory selected."
         ELSE IF ~isfile(pdf_path) THEN "The selected file doesn't exist."
         ELSE IF ~isdir(dir_path) THEN "The selected output directory doesn't exist"
         ELSE "Unexpected error"

\* the locals of a splitPDF call that has not reached split_pdf
NoRun ==
    /\ total_pages' = 0
    /\ start_page' = 0
    /\ range_step' = 0
    /\ progress' = 0
    /\ dialog' = 0
    /\ events' = <<>>
    /\ written' = <<>>
    /\ stale' = FALSE
    /\ cancelled_at' = 0



\* splitPDF up to the call of split_pdf, and split_pdf up to its loop.  When
\* the handler is entered from the setValue of a call that is running, that
\* call waits until this one has returned.
splitPDF ==
    /\ \/ pc = "idle"
       \/ pc \in {"events", "zipevents"} /\ waiting > 0
    /\ stack' = IF pc = "idle" THEN stack ELSE Append(stack, Frame)
    /\ waiting' = 0
    /\ runs < MaxRuns
    /\ archive' = {}
    /\ zip_maximum' = 0
    /\ files' = {}
    /\ file_name' = 0
    /\ progress_dialog' = FALSE
    /\ LET valid  == check_pdf(input_pdf_path)
           branch == Preflight(input_pdf_path, output_directory_path,
                               script_input, output_directory)
       IN  IF valid = "FileNotFoundError"
           THEN /\ pc' = "raised"
                /\ message' = valid
                /\ NoRun
                /\ UNCHANGED <<compress_zip, sub_pdf_num, cancel, progress_bar,
                               runs>>
           ELSE IF valid = "False"
           THEN /\ pc' = "message"
                /\ message' = "The selected file is not a pdf."
                /\ NoRun
                /\ UNCHANGED <<compress_zip, sub_pdf_num, cancel, progress_bar,
                               runs>>
           ELSE IF branch = "split"
           THEN /\ compress_zip' = compres_zip_checkBox
                /\ progress_bar' = FALSE
                /\ message' = ""
                /\ runs' = runs + 1
                /\ SplitBegin
           ELSE /\ pc' = "message"
                /\ message' = branch
                /\ NoRun
                /\ UNCHANGED <<compress_zip, sub_pdf_num, cancel, progress_bar,
                               runs>>
    /\ UNCHANGED <<input_pdf_path, output_directory_path, pages_per_pdf,
                   widgetVars, directory>>

Success == "Pdfs have been split successfully!"

\* splitPDF after split_pdf has returned: the final message box, or first
\* zip_pdf up to its loop: the dialog, the archive file, the files os.walk
\* lists.  A directory that is not there lists nothing; the archive is
\* created beside it, which fails when there is no such place.
splitPDFFinish ==
    /\ pc = "returned"
    /\ IF compres_zip_checkBox
       THEN /\ zip_maximum' = sub_pdf_num
            /\ progress_dialog' = FALSE
            /\ archive' = {}
            /\ file_name' = 0
            /\ IF isdir(output_directory_path)
               THEN /\ files' = DOMAIN directory
                    /\ pc' = "zip"
                    /\ message' = message
               ELSE /\ files' = {}
                    /\ \/ /\ pc' = "zip"
                          /\ message' = message
                       \/ /\ pc' = "raised"
                          /\ message' = "OSError"
       ELSE /\ message' = Success
            /\ pc' = "message"
            /\ UNCHANGED zipVars
    /\ UNCHANGED <<splitterVars, widgetVars, progress_bar, directory, loopVars,
                   waiting, stack, runs, runVars>>

\* setValue of the dialog of zip_pdf ends with reset(), which clears the
\* cancelled flag, when the value, the number of files added so far, is the
\* dialog's maximum; a maximum below the minimum 1 is 1
ZipReset ==
    Cardinality(archive) = (IF zip_maximum < 1 THEN 1 ELSE zip_maximum)

\* one turn of the loop of zip_pdf: setValue runs the event loop, where the
\* user can press Cancel, which hides the dialog and lets the waiting events
\* of the main window through; then the file is added and wasCanceled ends
\* the loop.  The order of the files is the file system's.
zip_pdf ==
    /\ pc = "zip"
    /\ files # {}
    /\ \E name \in files, Cancel \in BOOLEAN :
          /\ file_name' = name
          /\ IF Cancel
             THEN /\ progress_dialog' = TRUE
                  /\ waiting' = MaxWaiting
                  /\ pc' = "zipevents"
                  /\ UNCHANGED <<archive, files>>
             ELSE /\ progress_dialog' = (progress_dialog /\ ~ZipReset)
                  /\ waiting' = waiting
                  /\ archive' = archive \cup {name}
                  /\ files' = IF progress_dialog /\ ~ZipReset
                              THEN {} ELSE files \ {name}
                  /\ pc' = "zip"
    /\ UNCHANGED <<splitterVars, widgetVars, progress_bar, directory, loopVars,
                   message, zip_maximum, stack, runs, runVars>>

\* the loop of zip_pdf from the end of a setValue in which Cancel was
\* pressed: reset() when the value is the maximum, then the file is added,
\* and wasCanceled ends the loop
zip_pdf_write ==
    /\ pc = "zipevents"
    /\ progress_dialog' = (progress_dialog /\ ~ZipReset)
    /\ archive' = archive \cup {file_name}
    /\ files' = IF progress_dialog /\ ~ZipReset THEN {} ELSE files \ {file_name}
    /\ pc' = "zip"
    /\ UNCHANGED <<splitterVars, widgetVars, progress_bar, directory, loopVars,
                   message, zip_maximum, file_name, waiting, stack, runs,
                   runVars>>

\* zip_pdf after its loop, and the final message box of splitPDF
zip_pdf_close ==
    /\ pc = "zip"
    /\ files = {}
    /\ message' = Success
    /\ pc' = "message"
    /\ UNCHANGED <<splitterVars, widgetVars, progress_bar, directory, loopVars,
                   zipVars, waiting, stack, runs, runVars>>

\* the user closes the message box and splitPDF returns: to the event loop
\* at rest, or into the setValue the handler was dispatched from
CloseMessageBox ==
    /\ pc = "message"
    /\ message' = ""
    /\ IF stack = <<>>
       THEN /\ pc' = "idle"
            /\ stack' = stack
            /\ waiting' = 0
            /\ archive' = {}
            /\ zip_maximum' = 0
            /\ files' = {}
            /\ file_name' = 0
            /\ progress_dialog' = FALSE
            /\ NoRun
       ELSE LET caller == stack[Len(stack)]
            IN  /\ stack' = SubSeq(stack, 1, Len(stack) - 1)
                /\ pc' = caller.pc
                /\ waiting' = caller.waiting
                /\ total_pages' = caller.total_pages
                /\ start_page' = caller.start_page
                /\ range_step' = caller.range_step
                /\ progress' = caller.progress
                /\ dialog' = caller.dialog
                /\ archive' = caller.archive
                /\ zip_maximum' = caller.zip_maximum
                /\ files' = caller.files
                /\ file_name' = caller.file_name
                /\ progress_dialog' = caller.progress_dialog
                /\ events' = caller.events
                /\ written' = caller.written
                /\ stale' = caller.stale
                /\ cancelled_at' = caller.cancelled_at
    /\ UNCHANGED <<splitterVars, widgetVars, progress_bar, directory, runs>>

Init ==
    /\ input_pdf_path = NoPath
    /\ output_directory_path = NoPath
    /\ pages_per_pdf = 1
    /\ compress_zip = FALSE
    /\ sub_pdf_num = 0
    /\ cancel = FALSE
    /\ script_input = ""
    /\ output_directory = ""
    /\ compres_zip_checkBox = FALSE
    /\ progress_bar = FALSE
    /\ directory = << >>
    /\ pc = "idle"
    /\ total_pages = 0
    /\ start_page = 0
    /\ range_step = 0
    /\ progress = 0
    /\ dialog = 0
    /\ message = ""
    /\ archive = {}
    /\ zip_maximum = 0
    /\ files = {}
    /\ file_name = 0
    /\ progress_dialog = FALSE
    /\ waiting = 0
    /\ stack = <<>>
    /\ runs = 0
    /\ events = <<>>
    /\ written = <<>>
    /\ stale = FALSE
    /\ cancelled_at = 0

Next ==
    \/ openFileDialog
    \/ openDirectoryDialog
    \/ ValueChangePages
    \/ ToggleCheckBox
    \/ EditScriptInput
    \/ EditOutputDirectory
    \/ clearFields
    \/ CancelSignalSend
    \/ splitPDF
    \/ WriteChunk
    \/ SendProgress
    \/ update_progress
    \/ CheckCancel
    \/ splitPDFFinish
    \/ zip_pdf
    \/ zip_pdf_write
    \/ zip_pdf_close
    \/ CloseMessageBox

Spec == Init /\ [][Next]_vars

(***************************************************************************)
(* The loop of split_pdf alone, on documents of up to MaxBigPages pages:   *)
(* the state splitPDF leaves when it has called split_pdf on a document of *)
(* T > 0 pages with the spin box at k, into an empty directory; no event   *)
(* is waiting for the main window when Cancel is pressed.                  *)
(***************************************************************************)
MaxBigPages == 102

InitSplit ==
    /\ \E T \in 1..MaxBigPages :
          /\ input_pdf_path = PdfFile(T)
          /\ total_pages = T
    /\ pages_per_pdf \in 1..MaxBigPages
    /\ range_step = pages_per_pdf
    /\ progress = 0
    /\ dialog = 0
    /\ output_directory_path = ExistingDir
    /\ compress_zip = FALSE
    /\ sub_pdf_num = 1
    /\ cancel = FALSE
    /\ script_input = "text"
    /\ output_directory = "text"
    /\ compres_zip_checkBox = FALSE
    /\ progress_bar = FALSE
    /\ directory = << >>
    /\ pc = "loop"
    /\ start_page = 0
    /\ message = ""
    /\ archive = {}
    /\ zip_maximum = 0
    /\ files = {}
    /\ file_name = 0
    /\ progress_dialog = FALSE
    /\ waiting = 0
    /\ stack = <<>>
    /\ runs = 1
    /\ events = <<>>
    /\ written = <<>>
    /\ stale = FALSE
    /\ cancelled_at = 0

NextSplit ==
    \/ WriteChunk
    \/ SendProgress
    \/ update_progress
    \/ CheckCancel

SplitSpec == InitSplit /\ [][NextSplit]_vars

(***************************************************************************)
(* Properties                                                              *)
(***************************************************************************)
CeilDiv(a, b) == (a + b - 1) \div b

\* the pages of written[i..], in the order of the file names
RECURSIVE Concat(_, _)
Concat(list, i) ==
    IF i > Len(list) THEN <<>>
    ELSE list[i].pages \o Concat(list, i + 1)

SourcePages(total) == [i \in 1..total |-> i - 1]

\* the files this run has written are on disk as it wrote them, under the
\* names 1, 2, ... in that order
WrittenOnDisk ==
    \A i \in 1..Len(written) :
        /\ written[i].name = i
        /\ i \in DOMAIN directory
        /\ directory[i] = written[i].pages

\* C1 as stated: a run in which no cancellation is requested (Cancel is not
\* pressed while it runs) writes exactly ceil(T/k) files, named 1.pdf ..
\* ceil(T/k).pdf in that order, and a document of no pages gives no file and
\* no progress event.
C1_FileCount ==
    (pc = "returned" /\ cancelled_at = 0) =>
        /\ Len(written) = CeilDiv(total_pages, pages_per_pdf)
        /\ WrittenOnDisk
        /\ total_pages = 0 => (written = <<>> /\ events = <<>>)

\* C1 for the runs that start with the cancel flag clear: the count holds.
C1_FileCountCleanStart ==
    (pc = "returned" /\ cancelled_at = 0 /\ ~stale) =>
        /\ Len(written) = CeilDiv(total_pages, pages_per_pdf)
        /\ WrittenOnDisk
        /\ total_pages = 0 => (written = <<>> /\ events = <<>>)

\* C2: after an uncancelled split (Cancel was not pressed while it ran and the
\* cancel flag is clear), the output files in name order hold the source pages
\* 0 .. T-1 once each and in order; no file is empty, none holds more than k
\* pages, all but the last hold exactly k.
C2_Concatenation ==
    (pc = "returned" /\ ~cancel /\ cancelled_at = 0) =>
        /\ WrittenOnDisk
        /\ Concat(written, 1) = SourcePages(total_pages)
        /\ \A i \in 1..Len(written) :
              /\ Len(written[i].pages) >= 1
              /\ Len(written[i].pages) <= pages_per_pdf
              /\ i < Len(written) => Len(written[i].pages) = pages_per_pdf

C2_Witness ==
    /\ pc = "returned"
    /\ ~cancel
    /\ cancelled_at = 0
    /\ total_pages = 3
    /\ pages_per_pdf = 2
    /\ Len(written) = 2
    /\ DOMAIN directory = {1, 2}

\* C3 as stated: when cancel is first requested (Cancel is pressed, the flag
\* being clear when the run started) at the progress notification of chunk i,
\* the run starts no chunk i + 1 (it is never again in the body of the loop):
\* it has written exactly the files 1 .. i, each a complete chunk, and has sent
\* as many events.
C3_CancelAtChunk ==
    (cancelled_at > 0 /\ ~stale) =>
        /\ Len(written) = cancelled_at
        /\ Len(events) = cancelled_at
        /\ \A i \in 1..Len(written) :
              /\ written[i].name = i
              /\ written[i].pages =
                    ChunkPages((i - 1) * range_step, range_step, total_pages)
        /\ pc \notin {"loop", "written"}

\* C4: a reset leaves the six attributes at their defaults, whatever came
\* before it.
C4_ResetDefaults ==
    [][clearFields =>
          /\ input_pdf_path' = NoPath
          /\ output_directory_path' = NoPath
          /\ pages_per_pdf' = 1
          /\ compress_zip' = FALSE
          /\ sub_pdf_num' = 0
          /\ cancel' = FALSE]_vars

\* a reset has acted after a run that wrote files and set every attribute
C4_Witness ==
    /\ pc = "idle"
    /\ runs = 1
    /\ sub_pdf_num = 0
    /\ DOMAIN directory = {1, 2, 3}
    /\ input_pdf_path = NoPath
    /\ output_directory_path = NoPath
    /\ pages_per_pdf = 1
    /\ ~compress_zip
    /\ ~cancel

\* C5 as stated: one progress event per chunk written, after the write and
\* before the next chunk; the event of the chunk starting at page s carries
\* floor((s + k) * 100 / T); the values are strictly increasing; the last value
\* of an uncancelled run is >= 100 and exceeds 100 exactly when T is not a
\* multiple of k.
C5_ProgressFloor ==
    /\ Len(events) = (IF pc = "written" THEN Len(written) - 1 ELSE Len(written))
    /\ \A i \in 1..Len(events) :
          events[i] = (((i - 1) * pages_per_pdf + pages_per_pdf) * 100) \div total_pages
    /\ \A i \in 1..(Len(events) - 1) : events[i] < events[i + 1]
    /\ (pc = "returned" /\ ~cancel) =>
          /\ events[Len(events)] >= 100
          /\ events[Len(events)] > 100 <=> total_pages % pages_per_pdf # 0

\* C5 as amended, for a run during which no handler of the main window runs:
\* one progress event per chunk written, after the write and before the next
\* chunk; the event of the chunk starting at page s carries
\* int((s + k) / T * 100) in float arithmetic, which is floor((s + k) * 100 / T)
\* or, only where that quotient is exact, one less; the values never decrease;
\* the last value of an uncancelled run is >= 100, is 100 when T is a multiple
\* of k, and T = 10, k = 4 gives 40, 80, 120.
C5_ProgressFloat ==
    /\ Len(events) = (IF pc = "written" THEN Len(written) - 1 ELSE Len(written))
    /\ \A i \in 1..Len(events) :
          LET n == (i - 1) * pages_per_pdf + pages_per_pdf
          IN  \/ events[i] = (n * 100) \div total_pages
              \/ /\ events[i] = (n * 100) \div total_pages - 1
                 /\ (n * 100) % total_pages = 0
    /\ \A i \in 1..(Len(events) - 1) : events[i] <= events[i + 1]
    /\ (pc = "returned" /\ ~cancel) =>
          /\ events[Len(events)] >= 100
          /\ total_pages % pages_per_pdf = 0 => events[Len(events)] = 100
          /\ (total_pages = 10 /\ pages_per_pdf = 4) => events = <<40, 80, 120>>

\* a completed run whose last event is one below the exact quotient
C5_Witness ==
    /\ pc = "returned"
    /\ ~cancel
    /\ total_pages = 40
    /\ pages_per_pdf = 23
    /\ events = <<57, 114>>

\* C6 as stated: the check_pdf call of splitPDF never raises, and answers
\* false, so that the not-a-pdf message is shown, exactly when the path is not
\* that of a well-formed PDF.
C6_CheckPdfNeverRaises ==
    [][splitPDF =>
          /\ pc' # "raised"
          /\ message' = "The selected file is not a pdf."
                <=> input_pdf_path.kind # "pdf"]_vars

\* C7 as stated: at each progress event and when split_pdf has returned,
\* sub_pdf_num is the number of files the run has written, and so is the
\* maximum zip_pdf gives its progress dialog.
C7_ChunkCount ==
    /\ pc \in {"signalled", "returned"} => sub_pdf_num = Len(written)
    /\ pc = "zip" => zip_maximum = Len(written)

\* the messages that report a missing file, and a missing directory
FileMissing == {"No file selected.", "The selected file doesn't exist."}

DirectoryMissing ==
    {"No output directory selected.", "The selected output directory doesn't exist"}

\* C8 as stated: split_pdf runs only when the input parses as a PDF, the file
\* exists and the directory exists; otherwise exactly one message is shown and
\* nothing is written, the message chosen in the order not a PDF, file missing,
\* directory missing, unexpected.
C8_Preflight ==
    [][splitPDF =>
          LET passes == /\ input_pdf_path.kind = "pdf"
                        /\ isfile(input_pdf_path)
                        /\ isdir(output_directory_path)
              expected == IF input_pdf_path.kind = "notpdf"
                          THEN {"The selected file is not a pdf."}
                          ELSE IF ~isfile(input_pdf_path) THEN FileMissing
                          ELSE IF ~isdir(output_directory_path) THEN DirectoryMissing
                          ELSE {"Unexpected error"}
          IN  IF passes
              THEN /\ runs' = runs + 1
                   /\ pc' \in {"loop", "returned"}
              ELSE /\ runs' = runs
                   /\ pc' = "message"
                   /\ message' \in expected
                   /\ directory' = directory]_vars

\* C9: only a request sets the cancel flag and it changes nothing else of the
\* splitter or the directory, and a request made when the flag is set changes
\* nothing; only a reset clears the flag, split_pdf never does; so a run that
\* starts with the flag set and is not reset while it runs, on a document with
\* pages, writes exactly 1.pdf, sends exactly one progress event and returns.
C9_StaleCancel ==
    /\ [][(cancel /\ ~cancel') => clearFields]_vars
    /\ [][CancelSignalSend => (cancel' /\ (cancel => UNCHANGED vars))]_vars
    /\ [][(~cancel /\ cancel') =>
            /\ CancelSignalSend \/ SendProgress \/ update_progress
            /\ UNCHANGED <<input_pdf_path, output_directory_path, pages_per_pdf,
                           compress_zip, sub_pdf_num, directory>>]_vars
    /\ []((stale /\ total_pages > 0 /\ pc \notin {"loop", "written"}) =>
            /\ cancel
            /\ Len(written) = 1
            /\ written[1].name = 1
            /\ 1 \in DOMAIN directory
            /\ Len(events) = 1)

\* a run of a three-chunk document in which Cancel was not pressed, cut short
\* by the flag an earlier run left set
C9_Witness ==
    /\ pc = "returned"
    /\ runs = 2
    /\ stale
    /\ cancelled_at = 0
    /\ total_pages = 3
    /\ pages_per_pdf = 1
    /\ Len(written) = 1

\* C10 as stated: a run names its files 1, 2, ..., m whatever sub_pdf_num was
\* before; each write changes only the file of that name, overwriting it, and
\* leaves every other file of the directory as it was, so that writing again
\* what is there changes nothing; the archive is built from the files of the
\* directory.
C10_Frame ==
    /\ [](\A i \in 1..Len(written) : written[i].name = i)
    /\ [][directory' # directory =>
            LET m == Len(written')
            IN  /\ m = Len(written) + 1
                /\ DOMAIN directory' = DOMAIN directory \cup {m}
                /\ directory'[m] = written'[m].pages
                /\ \A n \in DOMAIN directory \ {m} :
                      directory'[n] = directory[n]]_vars
    /\ [](archive \subseteq DOMAIN directory)

=============================================================================
